---- MODULE Spec2Model ----
(***************************************************************************)
(* Model of pybinding's runtime scalar dispatch (numeric/arrayref.hpp),    *)
(* of the Python binding of the KPM Green's function engine (kpm.cpp), of  *)
(* the Lattice methods and of the foundation (system/Foundation.cpp).      *)
(***************************************************************************)
EXTENDS Integers, Sequences, FiniteSets, TLC

VARIABLES
    ref,        \* the typed array view (VariantArrayRef) held by the caller
    out,        \* the outcome of the call in progress: what it returned or threw
    kpm,        \* the Greens engine (class KPM) of the Python session
    deferred,   \* the Deferred<ArrayXd> made by deferred_ldos, if any
    pyoh,       \* the OptimizedHamiltonian object (PyOptHam) of the session, if any
    lattice,    \* the Lattice being defined, if any
    foundation, \* the Foundation of the system being built, if any
    rd          \* the remove_dangling call in progress: its locals and call stack

vars == <<ref, out, kpm, deferred, pyoh, lattice, foundation, rd>>
dispatch_vars == <<ref>>
kpm_vars == <<kpm, deferred, pyoh>>
system_vars == <<lattice, foundation, rd>>

(***************************************************************************)
(* Bounds of the model                                                     *)
(***************************************************************************)
MaxTypes == 2   \* longest declared type list, besides the common typedefs
MaxDim == 1     \* largest row / column count of an array view
MaxRows == 4    \* largest Hamiltonian matrix handed to OptimizedHamiltonian
MaxCache == 2   \* most OptimizedHamiltonian states the engine caches
NumMoments == 3 \* moments computed per request
MaxSub == 2     \* sublattices a Lattice holds: the capacity of sub_id, scaled down
MaxHopId == 2   \* hopping energies a Lattice holds: the capacity of hop_id, scaled down
MaxHoppings == 1 \* hoppings added to one lattice
MaxSites == 6   \* most sites of a foundation of a primitive
MaxExtent == 2  \* greatest coordinate of a vertex of a shape, in halves
MaxMinNeighbors == 3 \* largest min_neighbors of a lattice

(***************************************************************************)
(* numeric/arrayref.hpp: tags, scalar types, array views                   *)
(***************************************************************************)
\* enum class Tag
Tag == {"f32", "cf32", "f64", "cf64", "b", "i8", "i16", "i32", "i64",
        "u8", "u16", "u32", "u64"}

\* the scalar types get_tag is specialised for
Scalars == {"float", "cfloat", "double", "cdouble", "bool", "int8", "int16",
            "int32", "int64", "uint8", "uint16", "uint32", "uint64"}

get_tag(scalar_t) ==
    CASE scalar_t = "float"   -> "f32"
      [] scalar_t = "cfloat"  -> "cf32"
      [] scalar_t = "double"  -> "f64"
      [] scalar_t = "cdouble" -> "cf64"
      [] scalar_t = "bool"    -> "b"
      [] scalar_t = "int8"    -> "i8"
      [] scalar_t = "int16"   -> "i16"
      [] scalar_t = "int32"   -> "i32"
      [] scalar_t = "int64"   -> "i64"
      [] scalar_t = "uint8"   -> "u8"
      [] scalar_t = "uint16"  -> "u16"
      [] scalar_t = "uint32"  -> "u32"
      [] scalar_t = "uint64"  -> "u64"

\* opaque data pointers
Handles == {"bufA", "bufB"}

\* struct BasicArrayRef: every untyped view
BasicArrayRef ==
    [tag : Tag, is_row_major : BOOLEAN, data : Handles,
     rows : 1..MaxDim, cols : 1..MaxDim]

\* arrayref(Tag, void*, int): a 1D view
arrayref(tag, data, size) ==
    [tag |-> tag, is_row_major |-> TRUE, data |-> data, rows |-> 1, cols |-> size]

\* the scalar types a declared type list is drawn from
ListScalars == {"float", "double", "cfloat", "cdouble"}

\* using RealArrayRef = VariantArrayRef<float, double>
RealTypes == <<"float", "double">>
\* using ComplexArrayRef = VariantArrayRef<float, double, complex<float>, complex<double>>
ComplexTypes == <<"float", "double", "cfloat", "cdouble">>

\* the declared type lists TypeList<Scalar, Scalars...>: never empty
TypeLists ==
    {RealTypes, ComplexTypes} \cup
    UNION {[1..n -> ListScalars] : n \in 1..MaxTypes}

\* the tags of a type list: possible_tags
possible_tags(types) == {get_tag(types[k]) : k \in 1..Len(types)}

NoRef == [kind |-> "none"]
NoCall == [op |-> "none"]

InvalidConst == "Invalid VariantArrayConstRef assignment"
InvalidMut == "Invalid VariantArrayRef assignment"
NoMatch == "A match was not found"

\* the BasicArrayRef base of a typed view
Base(r) ==
    [tag |-> r.tag, is_row_major |-> r.is_row_major, data |-> r.data,
     rows |-> r.rows, cols |-> r.cols]

\* VariantCtor with the tag checked against the first type of the list only
VariantCtor_FirstOnly(other, types, is_const) ==
    IF ~(other.tag = get_tag(types[1]))
    THEN [err |-> IF is_const THEN InvalidConst ELSE InvalidMut, ref |-> NoRef]
    ELSE [err |-> "",
          ref |-> [kind |-> "variant", is_const |-> is_const, types |-> types,
                   tag |-> other.tag, is_row_major |-> other.is_row_major,
                   data |-> other.data, rows |-> other.rows, cols |-> other.cols]]

\* VariantArrayConstRef(ArrayConstRef const&) and VariantArrayRef(ArrayRef const&):
\* the base is copied from other, then the tag is checked against the list
VariantCtor(other, types, is_const) ==
    LET is_invalid == \A k \in 1..Len(types) : ~(other.tag = get_tag(types[k]))
    IN  IF is_invalid
        THEN [err |-> IF is_const THEN InvalidConst ELSE InvalidMut, ref |-> NoRef]
        ELSE [err |-> "",
              ref |-> [kind |-> "variant", is_const |-> is_const, types |-> types,
                       tag |-> other.tag, is_row_major |-> other.is_row_major,
                       data |-> other.data, rows |-> other.rows, cols |-> other.cols]]

\* VariantArrayConstRef(ArrayRef const& a): delegates through a copy of a's fields
VariantCtorFromMut(a, types) ==
    VariantCtor([tag |-> a.tag, is_row_major |-> a.is_row_major, data |-> a.data,
                 rows |-> a.rows, cols |-> a.cols], types, TRUE)

\* MakeContainer<Container<Scalar>>::make(ref): a container of Scalar over ref's memory
MakeContainer(Scalar, r) == [scalar |-> Scalar, view |-> Base(r)]

\* the operation handed to match: it returns a value computed from its arguments
lambda(containers) == [of |-> [k \in 1..Len(containers) |-> containers[k].scalar]]

\* what a dispatch did: the error thrown ("" for none), the invocations of the
\* operation (each the sequence of containers passed), the value returned, and the
\* number of candidates of the list compared with the view's tag
Thrown(n) == [err |-> NoMatch, calls |-> <<>>, ret |-> <<>>, compared |-> n]
Invoked(containers, n) ==
    [err |-> "", calls |-> <<containers>>, ret |-> <<lambda(containers)>>,
     compared |-> n]

\* try_match building the container of the variant's First type on a match
RECURSIVE try_match_First(_, _, _)
try_match_First(r, list, n) ==
    IF list = <<>>
    THEN Thrown(n)
    ELSE IF r.tag = get_tag(Head(list))
         THEN Invoked(<<MakeContainer(r.types[1], r)>>, n + 1)
         ELSE try_match_First(r, Tail(list), n + 1)

\* detail::try_match over TypeList<> and TypeList<Scalar, Tail...>
RECURSIVE try_match_from(_, _, _)
try_match_from(r, list, n) ==
    IF list = <<>>
    THEN Thrown(n)
    ELSE IF r.tag = get_tag(Head(list))
         THEN Invoked(<<MakeContainer(Head(list), r)>>, n + 1)
         ELSE try_match_from(r, Tail(list), n + 1)

try_match(r, list) == try_match_from(r, list, 0)

\* try_match2 accepting a candidate when either tag matches
RECURSIVE try_match2_Either(_, _, _, _)
try_match2_Either(r1, r2, list, n) ==
    IF list = <<>>
    THEN Thrown(n)
    ELSE IF r1.tag = get_tag(Head(list)[1]) \/ r2.tag = get_tag(Head(list)[2])
         THEN Invoked(<<MakeContainer(Head(list)[1], r1),
                        MakeContainer(Head(list)[2], r2)>>, n + 1)
         ELSE try_match2_Either(r1, r2, Tail(list), n + 1)

\* try_match2 building the two containers over each other's view
RECURSIVE try_match2_Swapped(_, _, _, _)
try_match2_Swapped(r1, r2, list, n) ==
    IF list = <<>>
    THEN Thrown(n)
    ELSE IF r1.tag = get_tag(Head(list)[1]) /\ r2.tag = get_tag(Head(list)[2])
         THEN Invoked(<<MakeContainer(Head(list)[1], r2),
                        MakeContainer(Head(list)[2], r1)>>, n + 1)
         ELSE try_match2_Swapped(r1, r2, Tail(list), n + 1)

\* detail::try_match2 over TypeList<> and TypeList<TypeList<Scalar1, Scalar2>, Tail...>
RECURSIVE try_match2_from(_, _, _, _)
try_match2_from(r1, r2, list, n) ==
    IF list = <<>>
    THEN Thrown(n)
    ELSE IF r1.tag = get_tag(Head(list)[1]) /\ r2.tag = get_tag(Head(list)[2])
         THEN Invoked(<<MakeContainer(Head(list)[1], r1),
                        MakeContainer(Head(list)[2], r2)>>, n + 1)
         ELSE try_match2_from(r1, r2, Tail(list), n + 1)

try_match2(r1, r2, list) == try_match2_from(r1, r2, list, 0)

\* tl::Combinations<List1, List2>: every pair, the first list's order outermost
Combinations(l1, l2) ==
    [k \in 1..(Len(l1) * Len(l2)) |->
        <<l1[((k - 1) \div Len(l2)) + 1], l2[((k - 1) % Len(l2)) + 1]>>]

\* num::get_real_t<T>: the real type underlying a scalar type
get_real_t(T) ==
    CASE T = "cfloat"  -> "float"
      [] T = "cdouble" -> "double"
      [] OTHER         -> T

\* IsSamePrecision comparing the scalar types themselves
IsSamePrecision_SameType(pair) == pair[1] = pair[2]

\* detail::IsSamePrecision<TypeList<T1, T2>>::value
IsSamePrecision(pair) == get_real_t(pair[1]) = get_real_t(pair[2])

\* tl::Filter<List, Predicate>, here with detail::IsSamePrecision
FilterSamePrecision(list) == SelectSeq(list, IsSamePrecision)

\* match<Container>(ref, lambda)
match(r) == try_match(r, r.types)

\* match2<Container1, Container2>(ref1, ref2, lambda)
match2(r1, r2) == try_match2(r1, r2, Combinations(r1.types, r2.types))

\* match2sp<Container1, Container2>(ref1, ref2, lambda)
match2sp(r1, r2) ==
    try_match2(r1, r2, FilterSamePrecision(Combinations(r1.types, r2.types)))

\* the views the dispatch calls are made on: arrayref(tag, data, size)
Array1D == {arrayref(t, d, 1) : t \in Tag, d \in Handles}

\* the typed views VariantArrayRef's constructor accepts among Array1D
Variants ==
    {VariantCtor(a, types, FALSE).ref : a \in Array1D, types \in TypeLists}
        \ {NoRef}

\* an object with a tag and a type list that no constructor has checked
Unchecked(a, types) ==
    [kind |-> "unchecked", is_const |-> FALSE, types |-> types,
     tag |-> a.tag, is_row_major |-> a.is_row_major,
     data |-> a.data, rows |-> a.rows, cols |-> a.cols]

Dispatched(op, args, list, o) ==
    [op |-> op, args |-> args, list |-> list, err |-> o.err, calls |-> o.calls,
     ret |-> o.ret, compared |-> o.compared]

NoEngine == [kind |-> "none"]
NoThunk == [kind |-> "none"]
NoOptHam == [kind |-> "none"]
NoLattice == [kind |-> "none"]
NoFoundation == [kind |-> "none"]
NoRemoval == [pc |-> "idle"]

Init ==
    /\ ref = NoRef
    /\ out = NoCall
    /\ kpm = NoEngine
    /\ deferred = NoThunk
    /\ pyoh = NoOptHam
    /\ lattice = NoLattice
    /\ foundation = NoFoundation
    /\ rd = NoRemoval

\* the caller takes the outcome of the finished call
Return ==
    /\ out # NoCall
    /\ out' = NoCall
    /\ UNCHANGED <<system_vars, ref, kpm_vars>>

\* the typed view goes out of scope
Destroy ==
    /\ out = NoCall
    /\ ref # NoRef
    /\ ref' = NoRef
    /\ UNCHANGED <<system_vars, out, kpm_vars>>

\* a typed view is constructed from an untyped one, by one of the constructors
Construct ==
    /\ out = NoCall
    /\ ref = NoRef
    /\ \E other \in BasicArrayRef, types \in TypeLists,
          ctor \in {"const", "mut", "const_from_mut"} :
         LET r == CASE ctor = "const" -> VariantCtor(other, types, TRUE)
                    [] ctor = "mut" -> VariantCtor(other, types, FALSE)
                    [] ctor = "const_from_mut" -> VariantCtorFromMut(other, types)
         IN  /\ ref' = r.ref
             /\ out' = [op |-> "ctor", err |-> r.err, other |-> other,
                        types |-> types, ctor |-> ctor]
    /\ UNCHANGED <<kpm_vars, system_vars>>

NextCtor == Construct \/ Return \/ Destroy

SpecCtor == Init /\ [][NextCtor]_vars

\* a typed view is bound to a 1D array
Bind ==
    /\ out = NoCall
    /\ ref = NoRef
    /\ \E a \in Array1D, types \in TypeLists :
         LET r == VariantCtor(a, types, FALSE)
         IN  /\ ref' = r.ref
             /\ out' = [op |-> "ctor", err |-> r.err, other |-> a,
                        types |-> types, ctor |-> "mut"]
    /\ UNCHANGED <<kpm_vars, system_vars>>

\* num::match on the typed view
Match ==
    /\ out = NoCall
    /\ ref # NoRef
    /\ out' = Dispatched("match", <<ref>>, ref.types, match(ref))
    /\ UNCHANGED <<system_vars, ref, kpm_vars>>

\* num::match2 on the typed view and a second one
Match2 ==
    /\ out = NoCall
    /\ ref # NoRef
    /\ \E r2 \in Variants :
         out' = Dispatched("match2", <<ref, r2>>,
                           Combinations(ref.types, r2.types), match2(ref, r2))
    /\ UNCHANGED <<system_vars, ref, kpm_vars>>

\* num::match2sp on the typed view and a second one
Match2sp ==
    /\ out = NoCall
    /\ ref # NoRef
    /\ \E r2 \in Variants :
         out' = Dispatched("match2sp", <<ref, r2>>,
                           FilterSamePrecision(Combinations(ref.types, r2.types)),
                           match2sp(ref, r2))
    /\ UNCHANGED <<system_vars, ref, kpm_vars>>

\* detail::try_match called with a view and a type list of the caller's choice
TryMatch ==
    /\ out = NoCall
    /\ ref = NoRef
    /\ \E a \in Array1D, list \in TypeLists \cup {<<>>} :
         out' = Dispatched("try_match", <<Unchecked(a, list)>>, list,
                           try_match(Unchecked(a, list), list))
    /\ UNCHANGED <<system_vars, ref, kpm_vars>>

\* detail::try_match2 called with two views and a list of pairs of the caller's choice
TryMatch2 ==
    /\ out = NoCall
    /\ ref = NoRef
    /\ \E t1 \in Tag, t2 \in Tag, l1 \in TypeLists, l2 \in {RealTypes, ComplexTypes},
          filtered \in BOOLEAN :
         LET a1 == Unchecked(arrayref(t1, "bufA", 1), l1)
             a2 == Unchecked(arrayref(t2, "bufB", 1), l2)
             list == IF filtered THEN FilterSamePrecision(Combinations(l1, l2))
                     ELSE Combinations(l1, l2)
         IN  out' = Dispatched("try_match2", <<a1, a2>>, list,
                               try_match2(a1, a2, list))
    /\ UNCHANGED <<system_vars, ref, kpm_vars>>

NextMatch ==
    \/ Bind \/ Match \/ Match2 \/ Match2sp \/ TryMatch \/ TryMatch2
    \/ Return \/ Destroy

SpecMatch == Init /\ [][NextMatch]_vars

(***************************************************************************)
(* kpm.cpp: the OptimizedHamiltonian object exposed to Python              *)
(***************************************************************************)
\* the indices 0 .. n-1 in increasing order: std::iota(indices.begin(), indices.end(), 0)
iota(n) == [k \in 1..n |-> k - 1]

\* the elements of a set of integers as an increasing sequence
RECURSIVE Ascending(_)
Ascending(S) ==
    IF S = {} THEN <<>>
    ELSE LET lo == CHOOSE x \in S : \A y \in S : x <= y
         IN  <<lo>> \o Ascending(S \ {lo})

Range(q) == {q[k] : k \in 1..Len(q)}

\* a square sparse matrix with a symmetric pattern: its size and the (row, column)
\* pairs of its off-diagonal nonzeros, indices from 0
SparseMatrix(n, upper) ==
    [rows |-> n, nz |-> upper \cup {<<e[2], e[1]>> : e \in upper}]

UpperPairs(n) == {<<i, j>> : i \in 0..(n - 1), j \in 0..(n - 1)} \cap
                 {e \in (0..(n - 1)) \X (0..(n - 1)) : e[1] < e[2]}

Matrices ==
    UNION {{SparseMatrix(n, upper) : upper \in SUBSET UpperPairs(n)} : n \in 1..MaxRows}

\* class Hamiltonian: a matrix of one of the four scalar types (get_variant)
Hamiltonians == [scalar : ListScalars, matrix : Matrices]

\* kpm::Bounds<scalar_t>(matrix, lanczos_precision): the bounds of one matrix
Bounds(m) == [of |-> m]

\* the columns of the nonzeros of a row
RowCols(m, r) == {c \in 0..(m.rows - 1) : <<r, c>> \in m.nz}

\* the indices within one hop of a set of indices
Reach(m, S) == S \cup UNION {RowCols(m, r) : r \in S}

\* the reachable size after each hop from the seed, until it stops growing
RECURSIVE Sizes(_, _)
Sizes(m, S) ==
    IF Reach(m, S) = S
    THEN <<Cardinality(S)>>
    ELSE <<Cardinality(S)>> \o Sizes(m, Reach(m, S))

\* the order in which the rows are visited from the seed: each visited row appends
\* its columns not yet in the queue, in increasing order
RECURSIVE Visit(_, _, _)
Visit(m, queue, k) ==
    IF k > Len(queue)
    THEN queue
    ELSE Visit(m, queue \o Ascending(RowCols(m, queue[k]) \ Range(queue)), k + 1)

\* the reordering: the visited indices, then the unreachable ones in increasing order
Order(m, seed) ==
    LET q == Visit(m, <<seed>>, 1)
    IN  q \o Ascending((0..(m.rows - 1)) \ Range(q))

\* the reordered position (from 0) of an original index
Position(order, i) == (CHOOSE k \in 1..Len(order) : order[k] = i) - 1

\* the error of a seed or target index outside the matrix
InvalidIndex == "InvalidIndex"

\* an index is a row of the matrix
InBounds(m, i) == i \in 0..(m.rows - 1)

\* OptimizedHamiltonian<scalar_t>::optimize_for(Indices{row, cols}, scale) on a new
\* OptimizedHamiltonian of matrix m: the reordered matrix, the permuted indices
\* and the reachable sizes
optimize_for(m, idx, scale) ==
    IF ~InBounds(m, idx.row)
    THEN [err |-> InvalidIndex]
    ELSE
    LET order == Order(m, idx.row)
    IN  [matrix |-> m,
         original_idx |-> idx,
         scale |-> scale,
         order |-> order,
         csr |-> {<<Position(order, e[1]), Position(order, e[2])>> : e \in m.nz},
         idx |-> [row |-> Position(order, idx.row),
                  cols |-> [k \in 1..Len(idx.cols) |-> Position(order, idx.cols[k])]],
         sizes |-> Sizes(m, {idx.row})]

\* PyOptHam::MakeOH{i}(m): a new OptimizedHamiltonian and new Bounds of m, optimized
\* for row i and every column
MakeOH(i, h) ==
    LET indices == iota(h.matrix.rows)
        bounds == Bounds(h.matrix)
    IN  [scalar |-> h.scalar,
         state |-> optimize_for(h.matrix, [row |-> i, cols |-> indices], bounds)]

\* the statements PyOptHam::MakeOH executes, in order: it has no branch and no
\* return before the last one
MakeOHSteps == <<"OptimizedHamiltonian", "iota", "Bounds", "optimize_for">>

\* the index arguments __init__ is called with: every row, one below and one above
Indexes(h) == (0 - 1)..h.matrix.rows

\* PyOptHam::ReturnMatrix: oh.csr()
ReturnMatrix(oh) == oh.state.csr

\* PyOptHam::ReturnIndices: oh.idx().cols
ReturnIndices(oh) == oh.state.idx.cols

\* ReturnSizes visiting the variant as ReturnIndices does
ReturnSizes_Indices(oh) == oh.state.idx.cols

\* PyOptHam::ReturnSizes: oh.sizes().get_data()
ReturnSizes(oh) == oh.state.sizes

\* OptimizedHamiltonian.__init__(h, index)
PyOptHamInit ==
    /\ out = NoCall
    /\ pyoh = NoOptHam
    /\ \E h \in Hamiltonians :
         \E index \in Indexes(h) :
            LET made == MakeOH(index, h)
                err == IF "err" \in DOMAIN made.state THEN made.state.err ELSE ""
            IN  /\ pyoh' = IF err = ""
                           THEN [kind |-> "optham", h |-> h, oh |-> made]
                           ELSE NoOptHam
                /\ out' = [op |-> "OptimizedHamiltonian", index |-> index,
                           rows |-> h.matrix.rows, err |-> err,
                           reached |-> MakeOHSteps]
    /\ UNCHANGED <<system_vars, dispatch_vars, kpm, deferred>>

\* the matrix, sizes and indices properties
PyOptHamMatrix ==
    /\ out = NoCall
    /\ pyoh # NoOptHam
    /\ out' = [op |-> "matrix", value |-> ReturnMatrix(pyoh.oh)]
    /\ UNCHANGED <<system_vars, dispatch_vars, kpm_vars>>

PyOptHamSizes ==
    /\ out = NoCall
    /\ pyoh # NoOptHam
    /\ out' = [op |-> "sizes", value |-> ReturnSizes(pyoh.oh)]
    /\ UNCHANGED <<system_vars, dispatch_vars, kpm_vars>>

PyOptHamIndices ==
    /\ out = NoCall
    /\ pyoh # NoOptHam
    /\ out' = [op |-> "indices", value |-> ReturnIndices(pyoh.oh)]
    /\ UNCHANGED <<system_vars, dispatch_vars, kpm_vars>>

\* the Python object is garbage collected
PyOptHamDel ==
    /\ out = NoCall
    /\ pyoh # NoOptHam
    /\ pyoh' = NoOptHam
    /\ UNCHANGED <<system_vars, dispatch_vars, out, kpm, deferred>>

NextOH ==
    \/ PyOptHamInit \/ PyOptHamMatrix \/ PyOptHamSizes \/ PyOptHamIndices
    \/ PyOptHamDel \/ Return

SpecOH == Init /\ [][NextOH]_vars

(***************************************************************************)
(* kpm.cpp: the Greens engine (class KPM) and its deferred requests        *)
(***************************************************************************)
\* a model: its Hamiltonian matrix and the sublattice of each site; site i lies
\* at coordinate i
Model(n, upper) ==
    [matrix |-> SparseMatrix(n, upper),
     sublattice |-> [k \in 1..n |-> IF (k - 1) % 2 = 0 THEN "A" ELSE "B"]]

Chain(n) == Model(n, {<<i, i + 1>> : i \in 0..(n - 2)})

\* the models of the session
Models == {Chain(2), Chain(3)}

\* the arguments of a request
Energies == {"E1", "E2"}
Broadenings == {"b1"}
Positions == {0, 1, 2}
Sublattices == {"", "A"}

Requests ==
    [energy : Energies, broadening : Broadenings, position : Positions,
     sublattice : Sublattices]

Distance(i, x) == IF i >= x THEN i - x ELSE x - i

\* System::find_nearest(position, sublattice): the nearest site, of the sublattice
\* if one is named; the lowest index among equally near sites
find_nearest(model, position, sublattice) ==
    LET n == model.matrix.rows
        sites == {i \in 0..(n - 1) :
                    sublattice = "" \/ model.sublattice[i + 1] = sublattice}
        nearest == {i \in sites :
                    \A j \in sites : Distance(i, position) <= Distance(j, position)}
    IN  CHOOSE i \in nearest : \A j \in nearest : i <= j

\* make_kpm<Strategy>(model, config): an engine bound to the model, nothing cached
make_kpm(model) ==
    [kind |-> "kpm", model |-> model, bounds |-> <<>>, cache |-> {},
     stats |-> [num_moments |-> 0, num_operations |-> 0],
     dropped |-> FALSE]

\* the cached states of a seed-index set: cache is a set of (key, state) pairs
Cached(engine, key) == {e \in engine.cache : e[1] = key}

\* the nonzeros the moments touch: at step k the rows of the reachable size of step k
Operations(st, num_moments) ==
    LET rows_at(k) == st.sizes[IF k <= Len(st.sizes) THEN k ELSE Len(st.sizes)]
        touched(k) == Cardinality({e \in st.csr : e[1] < rows_at(k)}) + rows_at(k)
        sum[k \in 0..num_moments] == IF k = 0 THEN 0 ELSE sum[k - 1] + touched(k)
    IN  sum[num_moments]

\* set_model dropping neither the cached states nor the bounds
set_model_KeepsCache(engine, model) == [engine EXCEPT !.model = model]

\* KPM::set_model(model): the model is replaced and everything cached is dropped
set_model(engine, model) ==
    [engine EXCEPT !.model = model, !.bounds = <<>>, !.cache = {}]

\* the cache looked up by the seed row alone
Lookup_ByRow(engine, key) == {e \in engine.cache : e[1].row = key.row}

\* the lookup of a request's seed-index set in the cache
Lookup(engine, key) == Cached(engine, key)

\* KPM::calc_greens(row, col, energy, broadening): the bounds are computed on first
\* use, the optimized state of (row, col) is taken from the cache or built and
\* cached, the moments are computed and the statistics of the call are kept
calc_greens(engine, row, col, energy, broadening) ==
    LET key == [row |-> row, cols |-> <<col>>]
        bounds == IF engine.bounds = <<>> THEN Bounds(engine.model.matrix)
                  ELSE engine.bounds[1]
        found == Lookup(engine, key)
        hit == found # {}
        st == IF hit THEN (CHOOSE e \in found : TRUE)[2]
              ELSE optimize_for(engine.model.matrix, key, bounds)
    IN  [engine |-> [engine EXCEPT
                        !.bounds = <<bounds>>,
                        !.cache = IF hit THEN @ ELSE @ \cup {<<key, st>>},
                        !.stats = [num_moments |-> NumMoments,
                                   num_operations |-> Operations(st, NumMoments)]],
         value |-> [what |-> "greens", matrix |-> st.matrix, scale |-> st.scale,
                    row |-> row, col |-> col, energy |-> energy,
                    broadening |-> broadening],
         key |-> key,
         rebuilt |-> ~hit,
         state |-> st]

\* KPM::calc_greens_vector(row, cols, energy, broadening): as calc_greens, for the
\* state optimized for the row and the whole list of columns; one Green's function
\* per column
calc_greens_vector(engine, row, cols, energy, broadening) ==
    LET key == [row |-> row, cols |-> cols]
        bounds == IF engine.bounds = <<>> THEN Bounds(engine.model.matrix)
                  ELSE engine.bounds[1]
        found == Lookup(engine, key)
        hit == found # {}
        st == IF hit THEN (CHOOSE e \in found : TRUE)[2]
              ELSE optimize_for(engine.model.matrix, key, bounds)
    IN  [engine |-> [engine EXCEPT
                        !.bounds = <<bounds>>,
                        !.cache = IF hit THEN @ ELSE @ \cup {<<key, st>>},
                        !.stats = [num_moments |-> NumMoments,
                                   num_operations |-> Operations(st, NumMoments)]],
         value |-> [what |-> "greens_vector", matrix |-> st.matrix, scale |-> st.scale,
                    row |-> row, cols |-> cols, energy |-> energy,
                    broadening |-> broadening],
         key |-> key,
         rebuilt |-> ~hit,
         state |-> st]

\* the lists of columns the callers pass: every column of the matrix
ColLists(n) == {iota(n)}

\* a request that finds the cache full cannot be served within the model's bounds
FitsKey(engine, key) ==
    \/ Cached(engine, key) # {}
    \/ Cardinality(engine.cache) < MaxCache

\* KPM::calc_ldos(energy, broadening, position, sublattice): the Green's function
\* at the site nearest to the position
calc_ldos(engine, energy, broadening, position, sublattice) ==
    LET i == find_nearest(engine.model, position, sublattice)
        g == calc_greens(engine, i, i, energy, broadening)
    IN  [g EXCEPT !.value.what = "ldos"]

\* a request that finds the cache full cannot be served within the model's bounds
Fits(engine, row, col) ==
    \/ Cached(engine, [row |-> row, cols |-> <<col>>]) # {}
    \/ Cardinality(engine.cache) < MaxCache

\* deferred_ldos capturing no sublattice: the call is made with the default one
deferred_ldos_NoSublattice(energy, broadening, position, sublattice) ==
    [self |-> "kpm", energy |-> energy, broadening |-> broadening,
     position |-> position, sublattice |-> ""]

\* deferred_ldos(self, energy, broadening, position, sublattice): the closure
\* [=, &kpm] holds copies of the four arguments and a reference to the engine
deferred_ldos(energy, broadening, position, sublattice) ==
    [self |-> "kpm", energy |-> energy, broadening |-> broadening,
     position |-> position, sublattice |-> sublattice]

\* the closure's body: kpm.calc_ldos(energy, broadening, position, sublattice) on
\* the engine the reference names
DeferredCall(d, engine) ==
    calc_ldos(engine, d.fn.energy, d.fn.broadening, d.fn.position, d.fn.sublattice)

\* whether the engine of the closure changes in this step
Touch == IF deferred = NoThunk THEN deferred
         ELSE [deferred EXCEPT !.touched = @ \/ kpm' # kpm]

Computed(op, args, r, pre) ==
    [op |-> op, args |-> args, value |-> r.value, key |-> r.key,
     rebuilt |-> r.rebuilt, state |-> r.state, pre |-> pre]

\* KPM(model, ...): the session makes its engine
MakeKPM ==
    /\ out = NoCall
    /\ kpm = NoEngine
    /\ \E model \in Models : kpm' = make_kpm(model)
    /\ UNCHANGED <<system_vars, dispatch_vars, out, deferred, pyoh>>

\* Greens.model = model; dropped notes that a state cached for a computed result
\* has been through a replacement of the model
SetModel ==
    /\ out = NoCall
    /\ kpm # NoEngine
    /\ \E model \in Models :
         kpm' = [set_model(kpm, model) EXCEPT !.dropped = @ \/ kpm.cache # {}]
    /\ deferred' = Touch
    /\ UNCHANGED <<system_vars, dispatch_vars, out, pyoh>>

\* Greens.calc_greens(row, col, energy, broadening)
CalcGreens ==
    /\ out = NoCall
    /\ kpm # NoEngine
    /\ \E row \in 0..(kpm.model.matrix.rows - 1), col \in 0..(kpm.model.matrix.rows - 1),
          energy \in Energies, broadening \in Broadenings :
         /\ Fits(kpm, row, col)
         /\ LET r == calc_greens(kpm, row, col, energy, broadening)
            IN  /\ kpm' = r.engine
                /\ out' = Computed("calc_greens", <<row, col, energy, broadening>>, r, kpm)
    /\ deferred' = Touch
    /\ UNCHANGED <<system_vars, dispatch_vars, pyoh>>

\* Greens.calc_greens(row, cols, energy, broadening), the overload taking a list
\* of columns
CalcGreensVector ==
    /\ out = NoCall
    /\ kpm # NoEngine
    /\ \E row \in 0..(kpm.model.matrix.rows - 1), cols \in ColLists(kpm.model.matrix.rows),
          energy \in Energies, broadening \in Broadenings :
         /\ FitsKey(kpm, [row |-> row, cols |-> cols])
         /\ LET r == calc_greens_vector(kpm, row, cols, energy, broadening)
            IN  /\ kpm' = r.engine
                /\ out' = Computed("calc_greens_vector",
                                   <<row, cols, energy, broadening>>, r, kpm)
    /\ deferred' = Touch
    /\ UNCHANGED <<system_vars, dispatch_vars, pyoh>>

\* Greens.calc_ldos(energy, broadening, position, sublattice)
CalcLdos ==
    /\ out = NoCall
    /\ kpm # NoEngine
    /\ \E q \in Requests :
         LET i == find_nearest(kpm.model, q.position, q.sublattice)
             r == calc_ldos(kpm, q.energy, q.broadening, q.position, q.sublattice)
         IN  /\ Fits(kpm, i, i)
             /\ kpm' = r.engine
             /\ out' = Computed("calc_ldos", q, r, kpm)
    /\ deferred' = Touch
    /\ UNCHANGED <<system_vars, dispatch_vars, pyoh>>

\* Greens.deferred_ldos(energy, broadening, position, sublattice)
DeferredLdos ==
    /\ out = NoCall
    /\ kpm # NoEngine
    /\ deferred = NoThunk
    /\ \E q \in Requests :
         deferred' = [kind |-> "deferred",
                      fn |-> deferred_ldos(q.energy, q.broadening, q.position,
                                           q.sublattice),
                      request |-> q,
                      created_model |-> kpm.model,
                      touched |-> FALSE]
    /\ UNCHANGED <<system_vars, dispatch_vars, out, kpm, pyoh>>

\* the Deferred is computed: its closure runs once, and the Deferred is done with
Invoke ==
    /\ out = NoCall
    /\ deferred # NoThunk
    /\ LET i == find_nearest(kpm.model, deferred.fn.position, deferred.fn.sublattice)
           r == DeferredCall(deferred, kpm)
       IN  /\ Fits(kpm, i, i)
           /\ kpm' = r.engine
           /\ out' = [op |-> "invoke", args |-> deferred.request, value |-> r.value,
                      key |-> r.key, rebuilt |-> r.rebuilt, state |-> r.state,
                      pre |-> kpm, created_model |-> deferred.created_model,
                      untouched |-> ~deferred.touched]
    /\ deferred' = NoThunk
    /\ UNCHANGED <<system_vars, dispatch_vars, pyoh>>

\* the Deferred is dropped without having been computed
Discard ==
    /\ out = NoCall
    /\ deferred # NoThunk
    /\ deferred' = NoThunk
    /\ UNCHANGED <<system_vars, dispatch_vars, out, kpm, pyoh>>

\* Greens.stats
GetStats ==
    /\ out = NoCall
    /\ kpm # NoEngine
    /\ out' = [op |-> "stats", value |-> kpm.stats]
    /\ UNCHANGED <<system_vars, dispatch_vars, kpm_vars>>

NextKPM ==
    \/ MakeKPM \/ SetModel \/ CalcGreens \/ CalcGreensVector \/ CalcLdos
    \/ DeferredLdos \/ Invoke
    \/ Discard \/ GetStats \/ Return

SpecKPM == Init /\ [][NextKPM]_vars

(***************************************************************************)
(* Lattice: sublattices, registered hopping energies and hoppings          *)
(***************************************************************************)
\* the sublattice names and the hopping energy names the callers use; the names
\* are interchangeable, so new ones are registered in this order
SubNameOrder == <<"A", "B", "C">>
HopNameOrder == <<"t1", "t2">>
SubNames == {SubNameOrder[k] : k \in 1..Len(SubNameOrder)}
HopNames == {HopNameOrder[k] : k \in 1..Len(HopNameOrder)}

\* the sublattices the callers add hoppings between, one of them never registered
HoppingEnds == {"A", "B", "bad_name"}

\* relative indices of hoppings, Index3D
RelIndexes == {<<0, 0, 0>>, <<1, 0, 0>>, <<0 - 1, 0, 0>>, <<1, 1, 0>>}

\* hopping energies: the values the callers pass, the value each name is registered
\* with, and the names of the energies add_hopping registers itself
EnergyValues == {2}
EnergyOf(name) == IF name = "t2" THEN 2 ELSE 1
AnonymousNames == <<"__anonymous__0", "__anonymous__1", "__anonymous__2",
                    "__anonymous__3">>
Neg(v) == <<0 - v[1], 0 - v[2], 0 - v[3]>>
Plus(v, w) == <<v[1] + w[1], v[2] + w[2], v[3] + w[3]>>
Zero3 == <<0, 0, 0>>

\* Lattice(a1, a2): no sublattices, no hopping energies, min_neighbors 1
NewLattice(ndim) ==
    [kind |-> "lattice", ndim |-> ndim, names |-> <<>>, sublattices |-> <<>>,
     energies |-> <<>>, energy |-> <<>>, min_neighbors |-> 1]

nsub(lat) == Len(lat.sublattices)

Registered(names, name) == \E k \in 1..Len(names) : names[k] = name

\* the id of a registered name: its position from 0
IdOf(names, name) == (CHOOSE k \in 1..Len(names) : names[k] = name) - 1

Ok(lat) == [lat |-> lat, err |-> ""]
Throws(lat, what) == [lat |-> lat, err |-> what]

\* add_sublattice which does not look at the names already registered
add_sublattice_NoUniqueCheck(lat, name, alias) ==
    IF name = "" THEN Throws(lat, "Sublattice name can't be blank")
    ELSE IF nsub(lat) >= MaxSub THEN Throws(lat, "Cannot create more sublattices")
    ELSE IF alias # "" /\ ~Registered(lat.names, alias)
    THEN Throws(lat, "There is no sublattice named so")
    ELSE Ok([lat EXCEPT
               !.names = Append(@, name),
               !.sublattices = Append(@, [alias |-> IF alias = "" THEN nsub(lat)
                                                    ELSE IdOf(lat.names, alias),
                                          position |-> Zero3,
                                          hoppings |-> <<>>])])

\* Lattice::add_sublattice(name, offset, onsite_energy, alias)
add_sublattice(lat, name, alias) ==
    IF name = "" THEN Throws(lat, "Sublattice name can't be blank")
    ELSE IF nsub(lat) >= MaxSub THEN Throws(lat, "Cannot create more sublattices")
    ELSE IF Registered(lat.names, name) THEN Throws(lat, "Sublattice already exists")
    ELSE IF alias # "" /\ ~Registered(lat.names, alias)
    THEN Throws(lat, "There is no sublattice named so")
    ELSE Ok([lat EXCEPT
               !.names = Append(@, name),
               !.sublattices = Append(@, [alias |-> IF alias = "" THEN nsub(lat)
                                                    ELSE IdOf(lat.names, alias),
                                          position |-> Zero3,
                                          hoppings |-> <<>>])])

\* Lattice::register_hopping_energy(name, energy)
register_hopping_energy(lat, name, energy) ==
    IF name = "" THEN Throws(lat, "Hopping name can't be blank")
    ELSE IF Len(lat.energies) >= MaxHopId THEN Throws(lat, "Can't create more hoppings")
    ELSE IF Registered(lat.energies, name) THEN Throws(lat, "Hopping already exists")
    ELSE Ok([lat EXCEPT !.energies = Append(@, name), !.energy = Append(@, energy)])

\* a hopping with this relative index and destination is in the list
HasHopping(hoppings, rel, to) ==
    \E k \in 1..Len(hoppings) :
        hoppings[k].relative_index = rel /\ hoppings[k].to_sublattice = to

\* Sublattice::add_hopping(relative_index, to_sublattice, id, is_conjugate)
SublatticeAddHopping(sub, rel, to, id, is_conjugate) ==
    IF HasHopping(sub.hoppings, rel, to)
    THEN [sub |-> sub, err |-> "The specified hopping already exists."]
    ELSE [sub |-> [sub EXCEPT !.hoppings =
                      Append(@, [relative_index |-> rel, to_sublattice |-> to,
                                 id |-> id, is_conjugate |-> is_conjugate])],
          err |-> ""]

\* add_registered_hopping which stores the hopping without looking for it first
add_registered_hopping_NoDuplicateCheck(lat, rel, from, to, hop) ==
    IF rel = Zero3 /\ from = to
    THEN Throws(lat, "Hoppings from/to the same sublattice must have a non-zero index")
    ELSE IF ~Registered(lat.names, from) \/ ~Registered(lat.names, to)
    THEN Throws(lat, "There is no sublattice named so")
    ELSE IF ~Registered(lat.energies, hop)
    THEN Throws(lat, "There is no hopping named so")
    ELSE
    LET f == IdOf(lat.names, from)
        t == IdOf(lat.names, to)
        h(r, d, c) == [relative_index |-> r, to_sublattice |-> d,
                       id |-> IdOf(lat.energies, hop), is_conjugate |-> c]
        one == [lat.sublattices EXCEPT ![f + 1].hoppings = Append(@, h(rel, t, FALSE))]
    IN  Ok([lat EXCEPT !.sublattices =
               [one EXCEPT ![t + 1].hoppings = Append(@, h(Neg(rel), f, TRUE))]])

\* Lattice::add_registered_hopping(relative_index, from_sub, to_sub, hopping):
\* the hopping goes to the source sublattice and its conjugate, with the opposite
\* relative index, to the destination sublattice
add_registered_hopping(lat, rel, from, to, hop) ==
    IF rel = Zero3 /\ from = to
    THEN Throws(lat, "Hoppings from/to the same sublattice must have a non-zero index")
    ELSE IF ~Registered(lat.names, from) \/ ~Registered(lat.names, to)
    THEN Throws(lat, "There is no sublattice named so")
    ELSE IF ~Registered(lat.energies, hop)
    THEN Throws(lat, "There is no hopping named so")
    ELSE
    LET f == IdOf(lat.names, from)
        t == IdOf(lat.names, to)
        id == IdOf(lat.energies, hop)
        a == SublatticeAddHopping(lat.sublattices[f + 1], rel, t, id, FALSE)
        one == [lat.sublattices EXCEPT ![f + 1] = a.sub]
        b == SublatticeAddHopping(one[t + 1], Neg(rel), f, id, TRUE)
    IN  IF a.err # "" THEN Throws(lat, a.err)
        ELSE IF b.err # "" THEN Throws(lat, b.err)
        ELSE Ok([lat EXCEPT !.sublattices = [one EXCEPT ![t + 1] = b.sub]])

\* Lattice::add_hopping(relative_index, from_sub, to_sub, energy): the hopping is
\* added under the first registered energy of this value; when there is none, the
\* value is registered first, under a name of its own
add_hopping(lat, rel, from, to, energy) ==
    LET same == {k \in 1..Len(lat.energy) : lat.energy[k] = energy}
        name == IF same # {}
                THEN lat.energies[CHOOSE k \in same : \A j \in same : k <= j]
                ELSE AnonymousNames[Len(lat.energies) + 1]
        registered == IF same # {} THEN Ok(lat)
                      ELSE register_hopping_energy(lat, name, energy)
    IN  IF registered.err # "" THEN registered
        ELSE add_registered_hopping(registered.lat, rel, from, to, name)

\* Lattice::max_hoppings(): the most hoppings any sublattice has
max_hoppings(lat) ==
    IF nsub(lat) = 0 THEN 0
    ELSE LET n(k) == Len(lat.sublattices[k].hoppings)
         IN  n(CHOOSE k \in 1..nsub(lat) : \A j \in 1..nsub(lat) : n(j) <= n(k))

\* Lattice::with_min_neighbors(n)
with_min_neighbors(lat, n) == [lat EXCEPT !.min_neighbors = n]

\* the name a caller passes is blank, a registered one, or the first in the order
\* that is not registered yet
IsNextOf(order, names, name) ==
    \/ name = ""
    \/ Registered(names, name)
    \/ \E k \in 1..Len(order) :
          /\ order[k] = name
          /\ \A j \in 1..(k - 1) : Registered(names, order[j])

\* Lattice(a1, a2)
MakeLattice ==
    /\ out = NoCall
    /\ lattice = NoLattice
    /\ lattice' = NewLattice(2)
    /\ UNCHANGED <<dispatch_vars, out, kpm_vars, foundation, rd>>

\* the outcome of a Lattice method: what was asked, of which lattice, and the error
Called(op, args, r) ==
    /\ lattice' = r.lat
    /\ out' = [op |-> op, args |-> args, err |-> r.err, pre |-> lattice]

AddSublattice ==
    /\ out = NoCall
    /\ lattice # NoLattice
    /\ \E name \in SubNames \cup {""}, alias \in SubNames \cup {""} :
         /\ IsNextOf(SubNameOrder, lattice.names, name)
         /\ Called("add_sublattice", <<name, alias>>, add_sublattice(lattice, name, alias))
    /\ UNCHANGED <<dispatch_vars, kpm_vars, foundation, rd>>

RegisterHoppingEnergy ==
    /\ out = NoCall
    /\ lattice # NoLattice
    /\ \E name \in HopNames \cup {""} :
         /\ IsNextOf(HopNameOrder, lattice.energies, name)
         /\ Called("register_hopping_energy", <<name, EnergyOf(name)>>,
                   register_hopping_energy(lattice, name, EnergyOf(name)))
    /\ UNCHANGED <<dispatch_vars, kpm_vars, foundation, rd>>

\* the hoppings stored in all sublattices
NumHoppings(lat) ==
    LET RECURSIVE sum(_)
        sum(k) == IF k = 0 THEN 0 ELSE Len(lat.sublattices[k].hoppings) + sum(k - 1)
    IN  sum(nsub(lat))

\* the source sublattice has this hopping already
Stored(lat, rel, from, to) ==
    IF Registered(lat.names, from) /\ Registered(lat.names, to)
    THEN HasHopping(lat.sublattices[IdOf(lat.names, from) + 1].hoppings, rel,
                    IdOf(lat.names, to))
    ELSE FALSE

\* hoppings are added to a lattice that has room, or are repeated
AddRegisteredHopping ==
    /\ out = NoCall
    /\ lattice # NoLattice
    /\ \E rel \in RelIndexes, from \in HoppingEnds, to \in HoppingEnds,
          hop \in HopNames :
         /\ NumHoppings(lattice) < 2 * MaxHoppings \/ Stored(lattice, rel, from, to)
         /\ Called("add_registered_hopping", <<rel, from, to, hop>>,
                   add_registered_hopping(lattice, rel, from, to, hop))
    /\ UNCHANGED <<dispatch_vars, kpm_vars, foundation, rd>>

\* hoppings are added by the value of their energy
AddHopping ==
    /\ out = NoCall
    /\ lattice # NoLattice
    /\ \E rel \in RelIndexes, from \in HoppingEnds, to \in HoppingEnds,
          energy \in EnergyValues :
         /\ NumHoppings(lattice) < 2 * MaxHoppings \/ Stored(lattice, rel, from, to)
         /\ Called("add_hopping", <<rel, from, to, energy>>,
                   add_hopping(lattice, rel, from, to, energy))
    /\ UNCHANGED <<dispatch_vars, kpm_vars, foundation, rd>>

\* the lattice goes out of scope
DropLattice ==
    /\ out = NoCall
    /\ lattice # NoLattice
    /\ lattice' = NoLattice
    /\ UNCHANGED <<dispatch_vars, out, kpm_vars, foundation, rd>>

NextLattice ==
    \/ MakeLattice \/ AddSublattice \/ RegisterHoppingEnergy \/ AddRegisteredHopping
    \/ AddHopping \/ DropLattice \/ Return

SpecLattice == Init /\ [][NextLattice]_vars

(***************************************************************************)
(* Foundation: the sites of a lattice inside a box, and remove_dangling    *)
(***************************************************************************)
\* a lattice defined by a sequence of calls that do not throw
AddSub(lat, name) == add_sublattice(lat, name, "").lat
\* add_sublattice(name, position): positions are counted in halves of the length
\* of a lattice vector
AddSubAt(lat, name, position) ==
    LET l == AddSub(lat, name)
    IN  [l EXCEPT !.sublattices[nsub(l)].position = position]
AddEnergy(lat, name) == register_hopping_energy(lat, name, EnergyOf(name)).lat
AddHop(lat, rel, from, to) == add_registered_hopping(lat, rel, from, to, "t1").lat

\* one sublattice without hoppings
Isolated == AddSub(NewLattice(1), "A")
\* one sublattice, nearest neighbours along the first vector
Line == AddHop(AddEnergy(Isolated, "t1"), <<1, 0, 0>>, "A", "A")
\* one sublattice, nearest neighbours along both vectors
Square == AddHop([Line EXCEPT !.ndim = 2], <<0, 1, 0>>, "A", "A")
\* two sublattices, B in the middle of the cell: A-B inside the cell and across
\* its diagonal, A-A along the first vector
Square2Atom ==
    AddHop(AddHop(AddHop(AddEnergy(AddSubAt(AddSub(NewLattice(2), "A"), "B",
                                            <<1, 1, 0>>), "t1"),
                         <<0, 0, 0>>, "A", "B"),
                  <<1, 1, 0>>, "A", "B"),
           <<1, 0, 0>>, "A", "A")

Fixtures == {Isolated, Line, Square, Square2Atom}

Lattices == {with_min_neighbors(lat, n) : lat \in Fixtures, n \in 0..MaxMinNeighbors}

\* Primitive(size): the sizes of the box, in unit cells along each vector
Boxes(lat) ==
    {size \in (1..MaxSites) \X (1..2) \X {1} :
        /\ size[1] * size[2] * nsub(lat) <= MaxSites
        /\ lat.ndim = 1 => size[2] = 1}

Prod(size) == size[1] * size[2] * size[3]

\* integer division of C++, which truncates toward zero
Div(a, b) == IF a >= 0 THEN a \div b ELSE 0 - ((0 - a) \div b)

\* bounds(-primitive.size.array() / 2, (primitive.size.array() - 1) / 2)
PrimitiveBounds(size) ==
    [first |-> [d \in 1..3 |-> Div(0 - size[d], 2)],
     second |-> [d \in 1..3 |-> Div(size[d] - 1, 2)]]

\* Shape: the vertices and the test of a position; Cartesian coordinates are
\* counted in halves of the length of a lattice vector
Shapes ==
    {[vertices |-> {p, q}, contains |-> c] :
        p \in {<<0, 0, 0>>, <<0 - 1, 0 - 1, 0>>},
        q \in {<<x, y, 0>> : x \in 0..MaxExtent, y \in 0..1},
        c \in {"rectangle", "everywhere", "punctured"}}

\* Lattice::translate_coordinates(point) of the fixtures, whose vectors are the
\* unit vectors: the coordinates along the vectors of the lattice, 0 beyond them
translate_coordinates(lat, point) ==
    [d \in 1..3 |-> IF d <= lat.ndim THEN point[d] ELSE 0]

\* cast<int>() of a coordinate counted in halves: truncation toward zero
CastInt(h) == Div(h, 2)

Least(S) == CHOOSE x \in S : \A y \in S : x <= y
Greatest(S) == CHOOSE x \in S : \A y \in S : x >= y

\* detail::find_bounds(shape, lattice): the least and the greatest truncated
\* coordinate of the vertices, padded by one cell along each lattice vector
find_bounds(shape, lat) ==
    LET vs == {[d \in 1..3 |-> CastInt(translate_coordinates(lat, point)[d])] :
                  point \in shape.vertices}
        pad == [d \in 1..3 |-> IF d <= lat.ndim THEN 1 ELSE 0]
    IN  [first |-> [d \in 1..3 |-> Least({v[d] : v \in vs}) - pad[d]],
         second |-> [d \in 1..3 |-> Greatest({v[d] : v \in vs}) + pad[d]]]

\* (bounds.second - bounds.first) + Index3D::Ones()
BoundsSize(bounds) == [d \in 1..3 |-> (bounds.second[d] - bounds.first[d]) + 1]

\* Lattice::calc_position(index, sublattice) of the fixtures
calc_position(lat, index, sub) ==
    [d \in 1..3 |-> 2 * index[d] + lat.sublattices[sub + 1].position[d]]

\* detail::generate_positions(origin, size, lattice): sublattices outermost, then
\* the third, second and first component of the index
generate_positions(lat, bounds, size) ==
    [i \in 1..(Prod(size) * nsub(lat)) |->
        LET idx == i - 1
            sub == idx \div Prod(size)
            index == <<idx % size[1], (idx \div size[1]) % size[2],
                       (idx \div (size[1] * size[2])) % size[3]>>
        IN  calc_position(lat, Plus(bounds.first, index), sub)]

\* Shape::contains(positions): inside the rectangle of the vertices, everywhere,
\* or everywhere but the origin
ShapeContains(shape, positions) ==
    [i \in 1..Len(positions) |->
        CASE shape.contains = "rectangle" ->
                \A d \in 1..3 :
                    /\ positions[i][d] >= Least({v[d] : v \in shape.vertices})
                    /\ positions[i][d] <= Greatest({v[d] : v \in shape.vertices})
          [] shape.contains = "everywhere" -> TRUE
          [] OTHER -> positions[i] # Zero3]

\* Foundation: lattice, bounds, size, nsub, num_sites and the states of the
\* sites; the state of site idx is is_valid[idx + 1]
MakeFoundation(lat, bounds, size, is_valid) ==
    [kind |-> "foundation", lattice |-> lat, bounds |-> bounds, size |-> size,
     nsub |-> nsub(lat), num_sites |-> Prod(size) * nsub(lat), is_valid |-> is_valid]

\* the flat index of the site of a sublattice at an index of the box: sublattices
\* outermost, then the third, second and first component (generate_positions)
SiteIdx(f, index, sub) ==
    ((sub * f.size[3] + index[3]) * f.size[2] + index[2]) * f.size[1] + index[1]

\* Site::get_index() and Site::get_sublattice() of the site with a flat index
SiteIndex(f, idx) ==
    <<idx % f.size[1],
      (idx \div f.size[1]) % f.size[2],
      (idx \div (f.size[1] * f.size[2])) % f.size[3]>>
SiteSublattice(f, idx) == idx \div Prod(f.size)

\* any_of(index < 0) || any_of(index >= size), negated
InBox(f, index) == \A d \in 1..3 : index[d] >= 0 /\ index[d] < f.size[d]

SiteHoppings(f, idx) == f.lattice.sublattices[SiteSublattice(f, idx) + 1].hoppings

\* the flat index of the site a hopping of a site leads to, or -1 outside the box
Neighbor(f, idx, hopping) ==
    LET index == Plus(SiteIndex(f, idx), hopping.relative_index)
    IN  IF InBox(f, index) THEN SiteIdx(f, index, hopping.to_sublattice) ELSE 0 - 1

\* detail::count_neighbors which does not reduce the count on the edges
count_neighbors_NoEdges(f) ==
    [i \in 1..f.num_sites |-> Len(SiteHoppings(f, i - 1))]

\* detail::count_neighbors: the hoppings of each site that stay inside the box
count_neighbors(f) ==
    [i \in 1..f.num_sites |->
        LET hoppings == SiteHoppings(f, i - 1)
        IN  Len(hoppings)
            - Cardinality({k \in 1..Len(hoppings) : Neighbor(f, i - 1, hoppings[k]) < 0})]

\* HamiltonianIndices which numbers every site
HamiltonianIndices_AllSites(f) ==
    [indices |-> [i \in 1..f.num_sites |-> i - 1], num_valid_sites |-> f.num_sites]

\* the loop of HamiltonianIndices from site i on
RECURSIVE AssignIndices(_, _, _, _)
AssignIndices(is_valid, i, indices, num_valid_sites) ==
    IF i >= Len(is_valid)
    THEN [indices |-> indices, num_valid_sites |-> num_valid_sites]
    ELSE IF is_valid[i + 1]
    THEN AssignIndices(is_valid, i + 1,
                       [indices EXCEPT ![i + 1] = num_valid_sites], num_valid_sites + 1)
    ELSE AssignIndices(is_valid, i + 1, indices, num_valid_sites)

\* HamiltonianIndices::HamiltonianIndices(foundation)
HamiltonianIndices(f) ==
    AssignIndices(f.is_valid, 0, [i \in 1..f.num_sites |-> 0 - 1], 0)

\* remove_dangling(foundation, min_neighbors) is called: neighbor_count is counted
\* and the loop over the sites starts; recursed counts, per site, the recursive
\* calls of clear_neighbors, and before keeps the states the call started from
StartRemoveDangling(f, min_neighbors) ==
    [pc |-> "run", min_neighbors |-> min_neighbors,
     neighbor_count |-> count_neighbors(f), i |-> 0, stack |-> <<>>,
     recursed |-> [i \in 1..f.num_sites |-> 0], before |-> f.is_valid]

\* clear_neighbors(site, neighbor_count, min_neighbors) is entered: it returns at
\* once when the count of the site is 0, else it starts on the first hopping
EnterClearNeighbors(r, idx) ==
    IF r.neighbor_count[idx + 1] = 0
    THEN r
    ELSE [r EXCEPT !.stack = Append(@, [site |-> idx, k |-> 1])]

\* a hopping is passed over only when it leaves the box
Skipped_OutsideOnly(f, n) == n < 0

\* a hopping is passed over when it leaves the box (for_each_neighbour) or leads
\* to an invalid site (!neighbor.is_valid())
Skipped(f, n) == IF n < 0 THEN TRUE ELSE ~f.is_valid[n + 1]

\* neighbor_count[neighbor_idx] < min_neighbors
Dangling(count, min_neighbors) == count < min_neighbors

\* Foundation(lattice, primitive): every site is valid
FoundationPrimitive ==
    /\ out = NoCall
    /\ foundation = NoFoundation
    /\ \E lat \in Fixtures :
         \E size \in Boxes(lat) :
            foundation' = MakeFoundation(lat, PrimitiveBounds(size), size,
                                         [i \in 1..(Prod(size) * nsub(lat)) |-> TRUE])
    /\ out' = [op |-> "Foundation", from |-> "primitive"]
    /\ UNCHANGED <<dispatch_vars, kpm_vars, lattice, rd>>

\* Foundation(lattice, shape): the box is the padded bounds of the shape, the
\* sites the shape contains are valid, then
\* remove_dangling(*this, lattice.get_min_neighbors()) runs
FoundationShape ==
    /\ out = NoCall
    /\ foundation = NoFoundation
    /\ \E lat \in Lattices :
         \E shape \in Shapes :
            LET bounds == find_bounds(shape, lat)
                size == BoundsSize(bounds)
                positions == generate_positions(lat, bounds, size)
                f == MakeFoundation(lat, bounds, size, ShapeContains(shape, positions))
            IN  /\ foundation' = f
                /\ rd' = StartRemoveDangling(f, lat.min_neighbors)
    /\ UNCHANGED <<dispatch_vars, out, kpm_vars, lattice>>

\* a SiteStateModifier is applied to a foundation of a primitive: its function
\* sets the states of the sites, then remove_dangling(foundation, min_neighbors)
\* runs
ApplySiteStateModifier ==
    /\ out = NoCall
    /\ foundation # NoFoundation
    /\ rd = NoRemoval
    /\ foundation.num_sites <= MaxSites
    /\ \E is_valid \in [1..foundation.num_sites -> BOOLEAN] :
         \E min_neighbors \in 0..MaxMinNeighbors :
            LET f == [foundation EXCEPT !.is_valid = is_valid]
            IN  /\ foundation' = f
                /\ rd' = StartRemoveDangling(f, min_neighbors)
    /\ UNCHANGED <<dispatch_vars, out, kpm_vars, lattice>>

\* one iteration of the loop of remove_dangling: an invalid site is handed to
\* clear_neighbors; after the last site the call returns
RemoveDanglingLoop ==
    /\ rd.pc = "run"
    /\ rd.stack = <<>>
    /\ rd' = IF rd.i >= foundation.num_sites
             THEN [rd EXCEPT !.pc = "done"]
             ELSE IF ~foundation.is_valid[rd.i + 1]
             THEN EnterClearNeighbors([rd EXCEPT !.i = @ + 1], rd.i)
             ELSE [rd EXCEPT !.i = @ + 1]
    /\ UNCHANGED <<dispatch_vars, out, kpm_vars, lattice, foundation>>

\* one step of the innermost clear_neighbors: the next hopping of its site is
\* visited (for_each_neighbour skips hoppings that leave the box), or, after the
\* last one, the count of the site is set to 0 and the call returns
ClearNeighbors ==
    /\ rd.pc = "run"
    /\ rd.stack # <<>>
    /\ LET depth == Len(rd.stack)
           top == rd.stack[depth]
           hoppings == SiteHoppings(foundation, top.site)
       IN  IF top.k > Len(hoppings)
           THEN /\ rd' = [rd EXCEPT !.neighbor_count[top.site + 1] = 0,
                                    !.stack = SubSeq(@, 1, depth - 1)]
                /\ UNCHANGED foundation
           ELSE LET n == Neighbor(foundation, top.site, hoppings[top.k])
                    next == [rd EXCEPT !.stack[depth].k = @ + 1]
                IN  IF Skipped(foundation, n)
                    THEN /\ rd' = next
                         /\ UNCHANGED foundation
                    ELSE LET dec == [next EXCEPT !.neighbor_count[n + 1] = @ - 1]
                         IN  IF Dangling(dec.neighbor_count[n + 1], rd.min_neighbors)
                             THEN /\ foundation' =
                                        [foundation EXCEPT !.is_valid[n + 1] = FALSE]
                                  /\ rd' = EnterClearNeighbors(
                                             [dec EXCEPT !.recursed[n + 1] = @ + 1], n)
                             ELSE /\ rd' = dec
                                  /\ UNCHANGED foundation
    /\ UNCHANGED <<dispatch_vars, out, kpm_vars, lattice>>

\* remove_dangling has returned to the constructor or to the modifier
RemoveDanglingReturn ==
    /\ rd.pc = "done"
    /\ out = NoCall
    /\ rd' = NoRemoval
    /\ out' = [op |-> "remove_dangling", min_neighbors |-> rd.min_neighbors]
    /\ UNCHANGED <<dispatch_vars, kpm_vars, lattice, foundation>>

\* HamiltonianIndices(foundation)
MakeHamiltonianIndices ==
    /\ out = NoCall
    /\ foundation # NoFoundation
    /\ rd = NoRemoval
    /\ out' = [op |-> "HamiltonianIndices", value |-> HamiltonianIndices(foundation)]
    /\ UNCHANGED <<dispatch_vars, kpm_vars, system_vars>>

\* the foundation goes out of scope
DestroyFoundation ==
    /\ out = NoCall
    /\ foundation # NoFoundation
    /\ rd = NoRemoval
    /\ foundation' = NoFoundation
    /\ UNCHANGED <<dispatch_vars, out, kpm_vars, lattice, rd>>

RemoveDanglingStep == RemoveDanglingLoop \/ ClearNeighbors

NextFoundation ==
    \/ FoundationPrimitive \/ FoundationShape \/ ApplySiteStateModifier
    \/ RemoveDanglingLoop \/ ClearNeighbors
    \/ RemoveDanglingReturn \/ MakeHamiltonianIndices \/ DestroyFoundation \/ Return

SpecFoundation == Init /\ [][NextFoundation]_vars

\* remove_dangling runs on without suspension points
FairSpecFoundation == SpecFoundation /\ WF_vars(RemoveDanglingStep)

(***************************************************************************)
(* Properties of the scalar dispatch                                       *)
(***************************************************************************)
IsDispatch1 == out.op \in {"match", "try_match"}
IsDispatch2 == out.op \in {"match2", "try_match2"}

\* the position of the first type of the list whose tag is the given one
FirstIndex(types, tag) ==
    CHOOSE k \in 1..Len(types) :
        /\ get_tag(types[k]) = tag
        /\ \A j \in 1..(k - 1) : get_tag(types[j]) # tag

\* the pairs of tags a list of pairs of types holds
PairTags(list) == {<<get_tag(list[k][1]), get_tag(list[k][2])>> : k \in 1..Len(list)}

\* C1: a view whose tag is a tag of its declared list has the operation invoked
\* exactly once, with one container, built over the view for the first type of
\* the list that has the view's tag, and the operation's result is returned
C1_MatchFirstType ==
    (IsDispatch1 /\ out.args[1].tag \in possible_tags(out.list)) =>
        LET k == FirstIndex(out.list, out.args[1].tag)
        IN  /\ out.err = ""
            /\ out.calls = << <<[scalar |-> out.list[k], view |-> Base(out.args[1])]>> >>
            /\ out.ret = <<lambda(out.calls[1])>>
            /\ out.compared = k

C1_Witness ==
    /\ out.op = "match"
    /\ out.args[1].types = ComplexTypes
    /\ out.args[1].tag = "cf32"
    /\ Len(out.calls) = 1

\* C2: a tag, or a pair of tags, that no candidate of the list has ends in the
\* no-match error, with the operation never invoked and every candidate compared
C2_NoMatchOutsideSet ==
    /\ (IsDispatch1 /\ out.args[1].tag \notin possible_tags(out.list)) =>
          /\ out.err = NoMatch
          /\ out.calls = <<>>
          /\ out.ret = <<>>
          /\ out.compared = Len(out.list)
    /\ (IsDispatch2 /\ <<out.args[1].tag, out.args[2].tag>> \notin PairTags(out.list)) =>
          /\ out.err = NoMatch
          /\ out.calls = <<>>
          /\ out.ret = <<>>
          /\ out.compared = Len(out.list)

C2_Witness ==
    /\ out.op = "try_match2"
    /\ out.args[1].tag \in possible_tags(out.args[1].types)
    /\ out.args[2].tag \notin possible_tags(out.args[2].types)
    /\ Len(out.list) > 1
    /\ out.err = NoMatch

\* C3: the constructor of a typed view succeeds exactly when the source's tag is a
\* tag of the declared list; a failure throws the class's error and leaves no
\* view, a success leaves a view with the source's five fields unchanged
C3_CtorChecksTag ==
    out.op = "ctor" =>
        /\ (out.err = "") = (out.other.tag \in possible_tags(out.types))
        /\ out.err # "" =>
              /\ ref = NoRef
              /\ out.err = IF out.ctor = "mut" THEN InvalidMut ELSE InvalidConst
        /\ out.err = "" =>
              /\ ref # NoRef
              /\ Base(ref) = out.other
              /\ ref.types = out.types
              /\ ref.is_const = (out.ctor # "mut")

C3_Witness ==
    /\ out.op = "ctor"
    /\ out.err = ""
    /\ out.ctor = "const_from_mut"
    /\ ref.tag = "f64"
    /\ ref.types = RealTypes
    /\ ~ref.is_row_major
    /\ ref.data = "bufB"

\* C4: match2 on two typed views invokes the operation exactly once, the first
\* container of the first view's type over the first view, the second of the
\* second view's type over the second view; its candidates are every pair of
\* the two declared lists
C4_Match2AllPairs ==
    out.op = "match2" =>
        LET r1 == out.args[1]
            r2 == out.args[2]
        IN  /\ out.err = ""
            /\ Len(out.calls) = 1
            /\ Len(out.calls[1]) = 2
            /\ get_tag(out.calls[1][1].scalar) = r1.tag
            /\ get_tag(out.calls[1][2].scalar) = r2.tag
            /\ out.calls[1][1].view = Base(r1)
            /\ out.calls[1][2].view = Base(r2)
            /\ out.ret = <<lambda(out.calls[1])>>
            /\ \A i \in 1..Len(r1.types), j \in 1..Len(r2.types) :
                  \E k \in 1..Len(out.list) : out.list[k] = <<r1.types[i], r2.types[j]>>

C4_Witness ==
    /\ out.op = "match2"
    /\ out.args[1].types = ComplexTypes
    /\ out.args[2].types = RealTypes
    /\ out.args[1].tag = "cf64"
    /\ out.args[2].tag = "f32"
    /\ out.args[1].data # out.args[2].data
    /\ Len(out.calls) = 1

\* the width of the real type under a floating-point tag
Precision(tag) ==
    CASE tag \in {"f32", "cf32"} -> 32
      [] tag \in {"f64", "cf64"} -> 64

\* C5: match2sp invokes the operation exactly for the pairs of one precision,
\* where it does what match2 does; a pair of mixed precision ends in the
\* no-match error with the operation not invoked
C5_Match2spSamePrecision ==
    out.op = "match2sp" =>
        LET r1 == out.args[1]
            r2 == out.args[2]
            same == Precision(r1.tag) = Precision(r2.tag)
        IN  /\ (out.err = "") = same
            /\ same =>
                  /\ out.calls = match2(r1, r2).calls
                  /\ out.ret = match2(r1, r2).ret
                  /\ Len(out.calls) = 1
            /\ ~same =>
                  /\ out.err = NoMatch
                  /\ out.calls = <<>>
                  /\ out.ret = <<>>

C5_Witness ==
    /\ out.op = "match2sp"
    /\ out.args[1].tag = "cf32"
    /\ out.args[2].tag = "f32"
    /\ out.err = ""

(***************************************************************************)
(* Properties of the OptimizedHamiltonian object                           *)
(***************************************************************************)
\* C10: the sizes property of an OptimizedHamiltonian is a non-decreasing sequence
\* whose elements are at most the number of rows of the matrix
C10_SizesMonotoneBounded ==
    out.op = "sizes" =>
        /\ \A k \in 1..(Len(out.value) - 1) : out.value[k] <= out.value[k + 1]
        /\ \A k \in 1..Len(out.value) : out.value[k] <= pyoh.h.matrix.rows

C10_Witness ==
    /\ out.op = "sizes"
    /\ Len(out.value) >= 3
    /\ out.value[1] < out.value[2]
    /\ out.value[2] < out.value[3]
    /\ out.value[Len(out.value)] < pyoh.h.matrix.rows

(***************************************************************************)
(* Properties of the Greens engine and of its deferred requests            *)
(***************************************************************************)
IsCompute == out.op \in {"calc_greens", "calc_greens_vector", "calc_ldos", "invoke"}

\* what calc_ldos returns for a request on an engine newly bound to a model
LdosOf(model, q) ==
    calc_ldos(make_kpm(model), q.energy, q.broadening, q.position, q.sublattice).value

\* C6: a deferred request captures its inputs when it is created, so, whatever
\* model the engine is bound to in between, invoking it returns what the request
\* returns against the model that was bound when the request was created
C6_ResultOfModelAtCreation ==
    out.op = "invoke" => out.value = LdosOf(out.created_model, out.args)

\* C7: a deferred request invoked on an engine unchanged since its creation
\* returns what calc_ldos returns for the same arguments on that engine and
\* leaves the engine in the state calc_ldos leaves it in
C7_DeferredAsImmediate ==
    (out.op = "invoke" /\ out.untouched) =>
        LET q == out.args
            r == calc_ldos(out.pre, q.energy, q.broadening, q.position, q.sublattice)
        IN  /\ out.value = r.value
            /\ out.rebuilt = r.rebuilt
            /\ kpm = r.engine

C7_Witness ==
    /\ out.op = "invoke"
    /\ out.untouched
    /\ out.args.sublattice = "A"
    /\ out.args.position = 1
    /\ out.value.row = 0
    /\ out.rebuilt

\* C8: everything the engine has cached was built for the matrix it is bound to,
\* so a request after a replacement of the model is answered from a state built
\* for the new matrix, built by that request when nothing is cached, and the
\* statistics are those of the work on that state
C8_NoStaleStateAfterReplace ==
    /\ kpm # NoEngine =>
          /\ \A e \in kpm.cache : /\ e[2].matrix = kpm.model.matrix
                                  /\ e[2].scale = Bounds(kpm.model.matrix)
          /\ kpm.bounds # <<>> => kpm.bounds[1] = Bounds(kpm.model.matrix)
    /\ IsCompute =>
          /\ out.state.matrix = out.pre.model.matrix
          /\ out.state.scale = Bounds(out.pre.model.matrix)
          /\ out.value.matrix = out.pre.model.matrix
          /\ out.pre.cache = {} => out.rebuilt
          /\ kpm.stats.num_operations =
                Operations(optimize_for(out.pre.model.matrix, out.key,
                                        Bounds(out.pre.model.matrix)), NumMoments)

C8_Witness ==
    /\ IsCompute
    /\ out.pre.dropped
    /\ out.pre.cache = {}
    /\ out.rebuilt
    /\ out.state.matrix = Chain(3).matrix
    /\ kpm.stats.num_operations > 0

\* C9: a request for a seed-index set the cache holds is answered with the state
\* held, nothing being built; the state that answers a request was built for
\* exactly its seed-index set, and the cache holds one state per set
C9_CacheKeyedBySeedSet ==
    /\ IsCompute =>
          /\ out.state.original_idx = out.key
          /\ <<out.key, out.state>> \in kpm.cache
          /\ Cached(out.pre, out.key) # {} =>
                /\ ~out.rebuilt
                /\ <<out.key, out.state>> \in out.pre.cache
                /\ kpm.cache = out.pre.cache
          /\ Cached(out.pre, out.key) = {} =>
                /\ out.rebuilt
                /\ kpm.cache = out.pre.cache \cup {<<out.key, out.state>>}
    /\ kpm # NoEngine =>
          \A e \in kpm.cache :
             /\ e[2].original_idx = e[1]
             /\ \A f \in kpm.cache : f[1] = e[1] => f = e

C9_Witness ==
    /\ IsCompute
    /\ ~out.rebuilt
    /\ \E e \in out.pre.cache : e[1].row = out.key.row /\ e[1] # out.key

\* C11: an index outside the matrix (negative or >= rows) is rejected with
\* InvalidIndex before any optimization: constructing an OptimizedHamiltonian for
\* such an index never reaches optimize_for
C11_InvalidIndexBeforeOptimize ==
    (out.op = "OptimizedHamiltonian" /\ ~(out.index \in 0..(out.rows - 1)))
        => /\ out.err = InvalidIndex
           /\ "optimize_for" \notin Range(out.reached)

(***************************************************************************)
(* Properties of the foundation                                            *)
(***************************************************************************)
\* the hoppings of a site that lead to a site of the box in a set of states
NeighborsIn(f, idx, is_valid) ==
    LET hoppings == SiteHoppings(f, idx)
    IN  {k \in 1..Len(hoppings) :
            LET n == Neighbor(f, idx, hoppings[k])
            IN  IF n < 0 THEN FALSE ELSE is_valid[n + 1]}

ValidNeighbors(f, idx) == Cardinality(NeighborsIn(f, idx, f.is_valid))

\* the hoppings of a site that lead to an invalid site of the box
InvalidNeighbors(f, idx) ==
    Cardinality(NeighborsIn(f, idx, [i \in 1..f.num_sites |-> ~f.is_valid[i]]))

NumValid(is_valid) == Cardinality({i \in 1..Len(is_valid) : is_valid[i]})

\* C12 as stated: after remove_dangling(foundation, min_neighbors) returns, every
\* site that is still valid has at least min_neighbors valid neighbouring sites
C12_NoDanglingSiteLeft ==
    rd.pc = "done" =>
        \A i \in 1..foundation.num_sites :
            foundation.is_valid[i] => ValidNeighbors(foundation, i - 1) >= rd.min_neighbors

\* C12 as the code has it: after remove_dangling returns, every site that is still
\* valid and has an invalid neighbouring site inside the foundation has at least
\* min_neighbors valid neighbouring sites
C12_NoDanglingSiteNextToRemoved ==
    rd.pc = "done" =>
        \A i \in 1..foundation.num_sites :
            (foundation.is_valid[i] /\ InvalidNeighbors(foundation, i - 1) > 0)
                => ValidNeighbors(foundation, i - 1) >= rd.min_neighbors

\* the square lattice of two atoms, two cells long, loses its first site with
\* min_neighbors = 1: its B neighbour goes too, and the second A site stays, next
\* to the removed one, with its own B neighbour
C12_Witness ==
    /\ rd.pc = "done"
    /\ foundation.lattice = Square2Atom
    /\ foundation.size = <<2, 1, 1>>
    /\ rd.min_neighbors = 1
    /\ rd.before = <<FALSE, TRUE, TRUE, TRUE>>
    /\ foundation.is_valid = <<FALSE, TRUE, FALSE, TRUE>>
    /\ InvalidNeighbors(foundation, 1) = 1
    /\ ValidNeighbors(foundation, 1) = 1

\* C15: remove_dangling terminates for every foundation, every initial validity
\* and every min_neighbors: clear_neighbors recurses into a site only at the moment
\* it flips the site from valid to invalid, so each site is recursed into at most
\* once, no site changes from invalid back to valid, and no entry of
\* neighbor_count ever becomes negative
C15_RemoveDanglingTerminates ==
    /\ [](rd.pc \in {"run", "done"} =>
            \A i \in 1..foundation.num_sites :
                rd.recursed[i] <= 1 /\ rd.neighbor_count[i] >= 0)
    /\ [][rd.pc = "run" =>
            \A i \in 1..foundation.num_sites :
                /\ ~foundation.is_valid[i] => ~foundation'.is_valid[i]
                /\ rd'.recursed[i] # rd.recursed[i] =>
                      foundation.is_valid[i] /\ ~foundation'.is_valid[i]]_vars
    /\ (rd.pc = "run") ~> (rd.pc = "done")

\* remove_dangling has returned after the removal of one site cascaded through
\* recursive calls of clear_neighbors into three other sites
C15_Witness ==
    /\ rd.pc = "done"
    /\ NumValid(rd.before) = foundation.num_sites - 1
    /\ Cardinality({i \in 1..foundation.num_sites : rd.recursed[i] = 1}) >= 3

\* C16: HamiltonianIndices gives the valid sites of a foundation the consecutive
\* indices 0, 1, ..., num_valid_sites - 1 in increasing order of the site index and
\* gives -1 to every invalid site, so the valid sites map one to one onto
\* [0, num_valid_sites) and num_valid_sites is the number of valid sites
C16_ConsecutiveHamiltonianIndices ==
    out.op = "HamiltonianIndices" =>
        LET is_valid == foundation.is_valid
            indices == out.value.indices
            sites == 1..foundation.num_sites
        IN  /\ Len(indices) = foundation.num_sites
            /\ out.value.num_valid_sites = NumValid(is_valid)
            /\ \A i \in sites : ~is_valid[i] => indices[i] = 0 - 1
            /\ \A i \in sites :
                  is_valid[i] =>
                      indices[i] = Cardinality({j \in 1..(i - 1) : is_valid[j]})
            /\ {indices[i] : i \in {j \in sites : is_valid[j]}}
                  = 0..(out.value.num_valid_sites - 1)

\* the indices of a foundation whose first site is invalid and which has valid
\* sites on both sides of another invalid one
C16_Witness ==
    /\ out.op = "HamiltonianIndices"
    /\ foundation.num_sites >= 4
    /\ ~foundation.is_valid[1]
    /\ foundation.is_valid[2]
    /\ ~foundation.is_valid[3]
    /\ foundation.is_valid[4]
    /\ out.value.indices[4] = 1

(***************************************************************************)
(* Properties of the lattice                                               *)
(***************************************************************************)
\* no two positions of a sequence hold the same element
Unique(q) == \A j, k \in 1..Len(q) : q[j] = q[k] => j = k

\* C13: after any sequence of add_sublattice calls the sublattice names are unique
\* and non-empty and there are at most as many sublattices as sub_id can number;
\* add_sublattice throws when the name is empty, when it is already registered,
\* when the alias names no registered sublattice or when the capacity is reached,
\* and otherwise it adds exactly one sublattice
C13_AddSublattice ==
    /\ lattice # NoLattice =>
          /\ Unique(lattice.names)
          /\ \A k \in 1..Len(lattice.names) : lattice.names[k] # ""
          /\ Len(lattice.names) = nsub(lattice)
          /\ nsub(lattice) <= MaxSub
    /\ out.op = "add_sublattice" =>
          LET name == out.args[1]
              alias == out.args[2]
              fails == \/ name = ""
                       \/ Registered(out.pre.names, name)
                       \/ alias # "" /\ ~Registered(out.pre.names, alias)
                       \/ nsub(out.pre) = MaxSub
          IN  /\ (out.err # "") <=> fails
              /\ out.err # "" => lattice = out.pre
              /\ out.err = "" => /\ nsub(lattice) = nsub(out.pre) + 1
                                 /\ lattice.names = Append(out.pre.names, name)

\* a new name is refused because the capacity is reached, and a registered name
\* is refused while there is room
C13_Witness ==
    /\ out.op = "add_sublattice"
    /\ out.err # ""
    /\ out.args[1] # ""
    /\ out.args[2] = ""
    /\ nsub(lattice) >= 1
    /\ \/ nsub(out.pre) = MaxSub /\ ~Registered(out.pre.names, out.args[1])
       \/ nsub(out.pre) < MaxSub /\ Registered(out.pre.names, out.args[1])

\* the pairs (relative index, destination) of the hoppings of a sublattice
HoppingKeys(sub) ==
    [k \in 1..Len(sub.hoppings) |->
        <<sub.hoppings[k].relative_index, sub.hoppings[k].to_sublattice>>]

\* C14: after any sequence of hopping additions no hopping is stored twice and no
\* sublattice hops to itself with a zero relative index; add_registered_hopping
\* throws when the relative index is (0,0,0) with equal source and destination,
\* when a sublattice name or the hopping energy name is unregistered, or when the
\* same hopping (relative index, source, destination) was already added
C14_AddRegisteredHopping ==
    /\ lattice # NoLattice =>
          \A s \in 1..nsub(lattice) :
             /\ Unique(HoppingKeys(lattice.sublattices[s]))
             /\ ~HasHopping(lattice.sublattices[s].hoppings, Zero3, s - 1)
    /\ out.op = "add_registered_hopping" =>
          LET rel == out.args[1]
              from == out.args[2]
              to == out.args[3]
              hop == out.args[4]
              known == Registered(out.pre.names, from) /\ Registered(out.pre.names, to)
              fails == \/ rel = Zero3 /\ from = to
                       \/ ~known
                       \/ ~Registered(out.pre.energies, hop)
                       \/ Stored(out.pre, rel, from, to)
          IN  /\ fails => out.err # ""
              /\ out.err # "" => lattice = out.pre

\* a hopping between registered sublattices, with a registered energy and a
\* non-zero relative index, is refused because it is stored already
C14_Witness ==
    /\ out.op = "add_registered_hopping"
    /\ out.err # ""
    /\ out.args[1] # Zero3
    /\ Registered(lattice.names, out.args[2])
    /\ Registered(lattice.names, out.args[3])
    /\ Registered(lattice.energies, out.args[4])
    /\ NumHoppings(lattice) = 2

====
